---------------------------- MODULE Spec2Model ----------------------------
(***************************************************************************)
(* The four Krylov solvers of pyamg.krylov: cg, cr, steepest_descent and   *)
(* minimal_residual.  One behaviour of the model is one call of one        *)
(* solver: Init draws the arguments, the Setup action is the code before   *)
(* the `while True:` loop, the Body action is the loop body up to the      *)
(* residuals.append, Callback is the user's callback(x), and the Tests     *)
(* action is the halting tests that end the loop body.                     *)
(*                                                                         *)
(* Floating point numbers are modelled as a finite-precision format: a     *)
(* finite number is an integer k that stands for k / Scale, with           *)
(* |k| <= MaxMag; every operation rounds its exact result to the nearest   *)
(* representable number and overflows to an infinity; PInf, NInf and NaN   *)
(* behave as in IEEE 754 (without signed zeros).  numpy scalars do not     *)
(* raise on division by zero, they yield inf or nan.                       *)
(***************************************************************************)
EXTENDS Integers, Sequences, FiniteSets, TLC

\* ------------------------------------------------------------ bounds
\* resolution of the number format: k stands for k / Scale
Scale == 16
\* largest finite magnitude (in units of 1 / Scale)
MaxMag == 8192
\* largest explicit maxiter argument drawn by Init
MaxIter == 3
\* the maxiter of the long calls, beyond the largest recompute_r
MaxSchedIter == 51

\* ------------------------------------------------------------ numbers
PInf == MaxMag + 1
NInf == 0 - PInf
NaN == MaxMag + 2

IsNaN(a) == a = NaN
IsInf(a) == a = PInf \/ a = NInf
Sign(a) == IF a > 0 THEN 1 ELSE IF a < 0 THEN -1 ELSE 0

\* an exact integer result brought back into the format (overflow to inf)
Saturate(k) == IF k > MaxMag THEN PInf ELSE IF k < 0 - MaxMag THEN NInf ELSE k

\* n / d rounded to the nearest integer, d # 0
RoundDiv(n, d) ==
    LET dd == IF d < 0 THEN 0 - d ELSE d
        nn == IF d < 0 THEN 0 - n ELSE n
    IN  (2 * nn + dd) \div (2 * dd)

FromInt(i) == i * Scale

FNeg(a) == IF IsNaN(a) THEN NaN ELSE 0 - a

FAdd(a, b) ==
    IF IsNaN(a) \/ IsNaN(b) THEN NaN
    ELSE IF IsInf(a) /\ IsInf(b) THEN (IF a = b THEN a ELSE NaN)
    ELSE IF IsInf(a) THEN a
    ELSE IF IsInf(b) THEN b
    ELSE Saturate(a + b)

FSub(a, b) == FAdd(a, FNeg(b))

FMul(a, b) ==
    IF IsNaN(a) \/ IsNaN(b) THEN NaN
    ELSE IF IsInf(a) \/ IsInf(b)
         THEN (IF a = 0 \/ b = 0 THEN NaN
               ELSE IF Sign(a) * Sign(b) > 0 THEN PInf ELSE NInf)
    ELSE Saturate(RoundDiv(a * b, Scale))

FDiv(a, b) ==
    IF IsNaN(a) \/ IsNaN(b) THEN NaN
    ELSE IF IsInf(a) /\ IsInf(b) THEN NaN
    ELSE IF IsInf(b) THEN 0
    ELSE IF IsInf(a) THEN (IF b >= 0 THEN a ELSE FNeg(a))
    ELSE IF b = 0 THEN (IF a = 0 THEN NaN ELSE IF a > 0 THEN PInf ELSE NInf)
    ELSE Saturate(RoundDiv(a * Scale, b))

\* comparisons: every comparison with a NaN is false
FLt(a, b) == ~IsNaN(a) /\ ~IsNaN(b) /\ a < b
FEq(a, b) == ~IsNaN(a) /\ ~IsNaN(b) /\ a = b
FNe(a, b) == ~FEq(a, b)

\* floor of the square root of n >= 0, by bisection on lo*lo <= n < hi*hi
RECURSIVE ISqrtIter(_, _, _)
ISqrtIter(n, lo, hi) ==
    IF hi - lo <= 1 THEN lo
    ELSE LET mid == (lo + hi) \div 2
         IN  IF mid * mid <= n THEN ISqrtIter(n, mid, hi)
             ELSE ISqrtIter(n, lo, mid)

FSqrt(a) ==
    IF IsNaN(a) \/ a < 0 THEN NaN
    ELSE IF a = PInf THEN PInf
    ELSE LET n == a * Scale
             s == ISqrtIter(n, 0, MaxMag + 2)
         IN  IF n - s * s > s THEN s + 1 ELSE s

\* ------------------------------------------------------------ vectors
Idx(v) == 1 .. Len(v)

VAdd(u, v) == [i \in Idx(u) |-> FAdd(u[i], v[i])]
VSub(u, v) == [i \in Idx(u) |-> FSub(u[i], v[i])]
VScale(s, v) == [i \in Idx(v) |-> FMul(s, v[i])]

RECURSIVE DotUpTo(_, _, _)
DotUpTo(u, v, k) ==
    IF k = 0 THEN 0 ELSE FAdd(DotUpTo(u, v, k - 1), FMul(u[k], v[k]))

\* inner(conjugate(u), v) for real vectors
Inner(u, v) == DotUpTo(u, v, Len(u))

\* A*v for a matrix given by its rows
MatVec(Amat, v) == [i \in Idx(Amat) |-> Inner(Amat[i], v)]

\* norm(v): the 2-norm, sqrt(inner(conjugate(v), v))
Norm(v) == FSqrt(Inner(v, v))

\* norm(ravel(A.A)): the Frobenius norm of a matrix
RECURSIVE SumSqRows(_, _)
SumSqRows(Amat, k) ==
    IF k = 0 THEN 0 ELSE FAdd(SumSqRows(Amat, k - 1), Inner(Amat[k], Amat[k]))

FrobNorm(Amat) == FSqrt(SumSqRows(Amat, Len(Amat)))

\* ------------------------------------------------------------ arguments
\* an optional argument is <<>> for None and <<v>> for the value v
None == <<>>
Some(v) == <<v>>
IsNone(o) == o = <<>>
Val(o) == o[1]

Vec(a, c) == <<FromInt(a), FromInt(c)>>
Mat(a, c, d, e) == <<Vec(a, c), Vec(d, e)>>

\* operators A: the 1-D Poisson matrix (SPD), two indefinite matrices, a
\* singular one
ASet == {Mat(2, -1, -1, 2), Mat(1, 0, 0, -1), Mat(2, 0, 0, -1), Mat(0, 0, 0, 1)}
\* preconditioners M: the identity (the default), an indefinite one, a
\* singular one and the zero operator
MSet == {Mat(1, 0, 0, 1), Mat(1, 0, 0, -3), Mat(1, 0, 0, 0), Mat(0, 0, 0, 0)}
bSet == {Vec(1, 1), Vec(1, 0), Vec(0, 0)}
x0Set == {Vec(0, 0), Vec(1, 1)}
tolSet == {0, Scale \div 4, Scale, 2 * Scale}
maxiterSet == {None} \cup {Some(m) : m \in 0 .. MaxIter}
\* what the caller's residuals argument holds before the call
PriorEntry == FromInt(7)
residualsSet == {None, Some(<<>>), Some(<<PriorEntry>>)}

VARIABLES
    arg,        \* the arguments of the call
    pc,         \* "call", "loop", "callback", "tests", "returned", "raised"
    status,     \* the returned info flag (when pc = "returned")
    exit,       \* which return or raise statement ended the call
    x, r, z, p, Ap,
    rz, rAz, zz,
    normr, tol, normb, normA, normMb,
    maxiter, it,
    residuals,  \* the caller's residuals list (unused when the argument is None)
    calls,      \* the solution vectors the callback has been called with
    xprev,      \* x as it was when the current loop body began
    nupd,       \* how many times the loop body has updated x
    rupdate     \* how the loop body last updated r: "cheap", "exact" ("none"
                \* before the first update)

vars == <<arg, pc, status, exit, x, r, z, p, Ap, rz, rAz, zz, normr, tol,
          normb, normA, normMb, maxiter, it, residuals, calls, xprev, nupd,
          rupdate>>

HasResiduals == ~IsNone(arg.residuals)
HasCallback == arg.callback

ZeroVec == Vec(0, 0)

\* the calls of one solver; criteria and normable (whether A.A is a sparse
\* matrix or an ndarray) are read by cr alone, normA by steepest_descent alone
Calls(solver, criteriaS, normableS, normAS) ==
    [solver : {solver}, A : ASet, M : MSet, b : bSet, x0 : x0Set,
     tol : tolSet, maxiter : maxiterSet, criteria : criteriaS,
     normable : normableS, normA : normAS,
     callback : BOOLEAN, residuals : residualsSet]

criteriaSet == {"rr", "rr+", "MrMr", "other"}
normASet == {None, Some(0), Some(FromInt(1))}

\* the state of a call before its first statement
Start ==
    /\ pc = "call"
    /\ status = 0
    /\ exit = "none"
    /\ x = arg.x0
    /\ r = ZeroVec /\ z = ZeroVec /\ p = ZeroVec /\ Ap = ZeroVec
    /\ rz = 0 /\ rAz = 0 /\ zz = 0
    /\ normr = 0 /\ tol = arg.tol /\ normb = 0 /\ normA = 0 /\ normMb = 0
    /\ maxiter = 0 /\ it = 0
    /\ residuals = IF HasResiduals THEN Val(arg.residuals) ELSE <<>>
    /\ calls = <<>>
    /\ xprev = arg.x0
    /\ nupd = 0
    /\ rupdate = "none"

Init ==
    /\ arg \in Calls("cg", {"rr"}, {TRUE}, {None})
            \cup Calls("cr", criteriaSet \ {"rr+"}, {TRUE}, {None})
            \cup Calls("cr", {"rr+"}, BOOLEAN, {None})
            \cup Calls("steepest_descent", {"rr"}, {TRUE}, normASet)
            \cup Calls("minimal_residual", {"rr"}, {TRUE}, {None})
    /\ Start

\* ------------------------------------------------------------ shared steps
\* return (postprocess(x), st)
Return(st, why) == pc' = "returned" /\ status' = st /\ exit' = why

\* raise ValueError(...)
Raise(why) == pc' = "raised" /\ exit' = why /\ UNCHANGED status

\* a setup that appends the initial norm to what the list holds
StoreInitialAppended(v) ==
    IF HasResiduals THEN Append(residuals, v) ELSE residuals

\* if residuals is not None: residuals[:] = [normr]
StoreInitial(v) == IF HasResiduals THEN <<v>> ELSE residuals

\* a loop body that appends the norm twice
AppendResidualTwice(v) ==
    IF HasResiduals THEN Append(Append(residuals, v), v) ELSE residuals

\* if residuals is not None: residuals.append(normr)
AppendResidual(v) == IF HasResiduals THEN Append(residuals, v) ELSE residuals

\* a loop body that goes on to the halting tests without calling the callback
AfterAppendSkipsCallback == "tests"

\* the statement after the append: the callback when there is one
AfterAppend == IF HasCallback THEN "callback" ELSE "tests"

\* a residual-update test that holds on the multiples of recompute_r
RecomputeTestOnMultiples(iter, recompute_r) ==
    iter % recompute_r = 0 /\ iter > 0

\* the residual-update test `mod(iter, recompute_r) and iter > 0`
RecomputeTest(iter, recompute_r) == iter % recompute_r # 0 /\ iter > 0

\* a maxiter validation that lets maxiter = 0 through
InvalidMaxiterNegative(m) == ~IsNone(m) /\ Val(m) < 0

\* `elif maxiter < 1: raise ValueError(...)`, for a maxiter that is not None
InvalidMaxiter(m) == ~IsNone(m) /\ Val(m) < 1

\* the status a halting verdict returns
StatusOf(verdict, iter) ==
    IF verdict = "converged" THEN 0
    ELSE IF verdict = "singular" THEN -1
    ELSE iter

\* the end of the halting tests: return, or go round the loop again
Halt(verdict) ==
    IF verdict = "continue" THEN pc' = "loop" /\ UNCHANGED <<status, exit>>
    ELSE Return(StatusOf(verdict, it), verdict)

\* if callback is not None: callback(x)
Callback ==
    /\ pc = "callback"
    /\ calls' = Append(calls, x)
    /\ pc' = "tests"
    /\ UNCHANGED <<arg, status, exit, x, r, z, p, Ap, rz, rAz, zz, normr, tol,
                   normb, normA, normMb, maxiter, it, residuals, xprev, nupd,
                   rupdate>>

\* ------------------------------------------------------------ cg
cg_recompute_r == 8

\* maxiter = int(1.3*len(b)) + 2
cgDefaultMaxiter(bvec) == (13 * Len(bvec)) \div 10 + 2

cgSetup ==
    /\ pc = "call" /\ arg.solver = "cg"
    /\ IF InvalidMaxiter(arg.maxiter)
       THEN /\ Raise("maxiter")
            /\ UNCHANGED <<arg, x, r, z, p, Ap, rz, rAz, zz, normr, tol, normb,
                           normA, normMb, maxiter, it, residuals, calls, xprev,
                           nupd, rupdate>>
       ELSE LET r0 == VSub(arg.b, MatVec(arg.A, x))
                z0 == MatVec(arg.M, r0)
                normr0 == Norm(r0)
            IN  /\ maxiter' = IF IsNone(arg.maxiter) THEN cgDefaultMaxiter(arg.b)
                                                      ELSE Val(arg.maxiter)
                /\ r' = r0 /\ z' = z0 /\ p' = z0
                /\ rz' = Inner(r0, z0)
                /\ normr' = normr0
                /\ residuals' = StoreInitial(normr0)
                /\ IF FLt(normr0, tol)
                   THEN Return(0, "converged0") /\ UNCHANGED tol
                   ELSE /\ tol' = IF FNe(normr0, 0) THEN FMul(tol, normr0) ELSE tol
                        /\ pc' = "loop"
                        /\ UNCHANGED <<status, exit>>
                /\ it' = 0
                /\ UNCHANGED <<arg, x, Ap, rAz, zz, normb, normA, normMb, calls,
                               xprev, nupd, rupdate>>

\* `if pAp < 0.0:` check curvature of A
cgIndefiniteA(pAp) == FLt(pAp, 0)

\* a curvature check of M with the comparison inverted
cgIndefiniteMInverted(rzv) == FLt(0, rzv)

\* `if rz < 0.0:` check curvature of M
cgIndefiniteM(rzv) == FLt(rzv, 0)

\* the loop body from `Ap = A*p` to `residuals.append(normr)`
cgBody ==
    /\ pc = "loop" /\ arg.solver = "cg"
    /\ xprev' = x
    /\ LET Ap1 == MatVec(arg.A, p)
           rz_old == rz
           pAp == Inner(Ap1, p)
       IN  IF cgIndefiniteA(pAp)
           THEN /\ Return(-1, "curvA")
                /\ UNCHANGED <<x, r, z, p, rz, normr, it, residuals, nupd,
                               rupdate>>
           ELSE LET alpha == FDiv(rz, pAp)
                    x1 == VAdd(x, VScale(alpha, p))
                    r1 == IF RecomputeTest(it, cg_recompute_r)
                          THEN VSub(r, VScale(alpha, Ap1))
                          ELSE VSub(arg.b, MatVec(arg.A, x1))
                    z1 == MatVec(arg.M, r1)
                    rz1 == Inner(r1, z1)
                IN  /\ x' = x1 /\ r' = r1 /\ z' = z1 /\ rz' = rz1
                    /\ nupd' = nupd + 1
                    /\ rupdate' = IF RecomputeTest(it, cg_recompute_r)
                                  THEN "cheap" ELSE "exact"
                    /\ IF cgIndefiniteM(rz1)
                       THEN /\ Return(-1, "curvM")
                            /\ UNCHANGED <<p, normr, it, residuals>>
                       ELSE LET beta == FDiv(rz1, rz_old)
                            IN  /\ p' = VAdd(VScale(beta, p), z1)
                                /\ it' = it + 1
                                /\ normr' = Norm(r1)
                                /\ residuals' = AppendResidual(Norm(r1))
                                /\ pc' = AfterAppend
                                /\ UNCHANGED <<status, exit>>
    /\ UNCHANGED <<arg, Ap, rAz, zz, tol, normb, normA, normMb, maxiter, calls>>

\* halting tests that look at the iteration count first
cgVerdictMaxiterFirst(nr, tl, rzv, iter, mx) ==
    IF iter = mx THEN "maxiter"
    ELSE IF FLt(nr, tl) THEN "converged"
    ELSE IF FEq(rzv, 0) THEN "singular"
    ELSE "continue"

\* the halting tests that end the loop body, in the order of the code
cgVerdict(nr, tl, rzv, iter, mx) ==
    IF FLt(nr, tl) THEN "converged"
    ELSE IF FEq(rzv, 0) THEN "singular"
    ELSE IF iter = mx THEN "maxiter"
    ELSE "continue"

cgTests ==
    /\ pc = "tests" /\ arg.solver = "cg"
    /\ Halt(cgVerdict(normr, tol, rz, it, maxiter))
    /\ UNCHANGED <<arg, x, r, z, p, Ap, rz, rAz, zz, normr, tol, normb, normA,
                   normMb, maxiter, it, residuals, calls, xprev, nupd,
                   rupdate>>

\* ------------------------------------------------------------ cr
cr_recompute_r == 8

\* maxiter = int(1.3*len(b)) + 2
crDefaultMaxiter(bvec) == (13 * Len(bvec)) \div 10 + 2

\* the threshold rtol of the stopping criteria
crRtol(criteria, tl, nA, xv, nb, nMb) ==
    IF criteria = "rr" THEN FMul(tl, nb)
    ELSE IF criteria = "rr+" THEN FMul(tl, FAdd(FMul(nA, Norm(xv)), nb))
    ELSE FMul(tl, nMb)

crSetup ==
    /\ pc = "call" /\ arg.solver = "cr"
    /\ IF InvalidMaxiter(arg.maxiter)
       THEN /\ Raise("maxiter")
            /\ UNCHANGED <<r, z, p, Ap, rAz, zz, normr, normb, normA, normMb,
                           maxiter, it, residuals>>
       ELSE LET r0 == VSub(arg.b, MatVec(arg.A, x))
                z0 == MatVec(arg.M, r0)
                zz0 == Inner(z0, z0)
                nb0 == Norm(arg.b)
                nb == IF FEq(nb0, 0) THEN FromInt(1) ELSE nb0
                nA == IF arg.criteria = "rr+" THEN FrobNorm(arg.A) ELSE normA
                nMb == IF arg.criteria = "MrMr" THEN Norm(MatVec(arg.M, arg.b))
                                                ELSE normMb
                normr0 == IF arg.criteria = "MrMr" THEN FSqrt(zz0) ELSE Norm(r0)
                rtol == crRtol(arg.criteria, tol, nA, x, nb, nMb)
                Az0 == MatVec(arg.A, z0)
            IN  /\ maxiter' = IF IsNone(arg.maxiter) THEN crDefaultMaxiter(arg.b)
                                                      ELSE Val(arg.maxiter)
                /\ r' = r0 /\ z' = z0 /\ p' = z0 /\ zz' = zz0
                /\ residuals' = StoreInitial(Norm(r0))
                /\ normb' = nb
                /\ IF arg.criteria \notin {"rr", "rr+", "MrMr"}
                   THEN /\ Raise("criteria")
                        /\ normr' = Norm(r0)
                        /\ UNCHANGED <<normA, normMb, rAz, Ap, it>>
                   ELSE IF arg.criteria = "rr+" /\ ~arg.normable
                   THEN /\ Raise("normA")
                        /\ normr' = Norm(r0)
                        /\ UNCHANGED <<normA, normMb, rAz, Ap, it>>
                   ELSE /\ normA' = nA /\ normMb' = nMb /\ normr' = normr0
                        /\ IF FLt(normr0, rtol)
                           THEN /\ Return(0, "converged0")
                                /\ UNCHANGED <<rAz, Ap, it>>
                           ELSE /\ rAz' = Inner(r0, Az0)
                                /\ Ap' = MatVec(arg.A, z0)
                                /\ it' = 0
                                /\ pc' = "loop"
                                /\ UNCHANGED <<status, exit>>
    /\ UNCHANGED <<arg, x, rz, tol, calls, xprev, nupd, rupdate>>

\* the loop body from `rAz_old = rAz` to `residuals.append(normr)`
crBody ==
    /\ pc = "loop" /\ arg.solver = "cr"
    /\ xprev' = x
    /\ LET rAz_old == rAz
           alpha == FDiv(rAz, Inner(Ap, Ap))
           x1 == VAdd(x, VScale(alpha, p))
           r1 == IF RecomputeTest(it, cr_recompute_r)
                 THEN VSub(r, VScale(alpha, Ap))
                 ELSE VSub(arg.b, MatVec(arg.A, x1))
           z1 == MatVec(arg.M, r1)
           Az1 == MatVec(arg.A, z1)
           rAz1 == Inner(r1, Az1)
           beta == FDiv(rAz1, rAz_old)
       IN  /\ x' = x1 /\ r' = r1 /\ z' = z1 /\ rAz' = rAz1
           /\ nupd' = nupd + 1
           /\ rupdate' = IF RecomputeTest(it, cr_recompute_r)
                         THEN "cheap" ELSE "exact"
           /\ p' = VAdd(VScale(beta, p), z1)
           /\ Ap' = VAdd(VScale(beta, Ap), Az1)
           /\ it' = it + 1
           /\ zz' = Inner(z1, z1)
           /\ normr' = Norm(r1)
           /\ residuals' = AppendResidual(Norm(r1))
           /\ pc' = AfterAppend
    /\ UNCHANGED <<arg, status, exit, rz, tol, normb, normA, normMb, maxiter,
                   calls>>

\* halting tests that look for a singular preconditioner first
crVerdictSingularFirst(nr, rtol, zzv, iter, mx) ==
    IF FEq(zzv, 0) THEN "singular"
    ELSE IF FLt(nr, rtol) THEN "converged"
    ELSE IF iter = mx THEN "maxiter"
    ELSE "continue"

\* the halting tests that end the loop body, in the order of the code
crVerdict(nr, rtol, zzv, iter, mx) ==
    IF FLt(nr, rtol) THEN "converged"
    ELSE IF FEq(zzv, 0) THEN "singular"
    ELSE IF iter = mx THEN "maxiter"
    ELSE "continue"

\* the stopping criteria (with 'MrMr', normr = norm(z)) and the halting tests
crTests ==
    /\ pc = "tests" /\ arg.solver = "cr"
    /\ LET normr1 == IF arg.criteria = "MrMr" THEN Norm(z) ELSE normr
           rtol == crRtol(arg.criteria, tol, normA, x, normb, normMb)
       IN  /\ normr' = normr1
           /\ Halt(crVerdict(normr1, rtol, zz, it, maxiter))
    /\ UNCHANGED <<arg, x, r, z, p, Ap, rz, rAz, zz, tol, normb, normA, normMb,
                   maxiter, it, residuals, calls, xprev, nupd, rupdate>>

\* ------------------------------------------------------------ steepest_descent
sd_recompute_r == 50

\* maxiter = int(len(b))
sdDefaultMaxiter(bvec) == Len(bvec)

\* rtol = tol * (normA * norm(x) + normb) with normA, tol * normb without
sdRtol(nAopt, tl, xv, nb) ==
    IF ~IsNone(nAopt) THEN FMul(tl, FAdd(FMul(Val(nAopt), Norm(xv)), nb))
    ELSE FMul(tl, nb)

sdSetup ==
    /\ pc = "call" /\ arg.solver = "steepest_descent"
    /\ IF InvalidMaxiter(arg.maxiter)
       THEN /\ Raise("maxiter")
            /\ UNCHANGED <<r, z, rz, normr, normb, maxiter, it, residuals>>
       ELSE LET r0 == VSub(arg.b, MatVec(arg.A, x))
                z0 == MatVec(arg.M, r0)
                normr0 == Norm(r0)
                nb0 == Norm(arg.b)
                \* `normA` is true of a number other than 0
                nb == IF FEq(nb0, 0) /\ ~IsNone(arg.normA) /\ Val(arg.normA) # 0
                      THEN FromInt(1) ELSE nb0
                rtol == sdRtol(arg.normA, tol, x, nb)
            IN  /\ maxiter' = IF IsNone(arg.maxiter) THEN sdDefaultMaxiter(arg.b)
                                                      ELSE Val(arg.maxiter)
                /\ r' = r0 /\ z' = z0
                /\ rz' = Inner(r0, z0)
                /\ normr' = normr0
                /\ residuals' = StoreInitial(normr0)
                /\ normb' = nb
                /\ it' = 0
                /\ IF FLt(normr0, rtol)
                   THEN Return(0, "converged0")
                   ELSE pc' = "loop" /\ UNCHANGED <<status, exit>>
    /\ UNCHANGED <<arg, x, p, Ap, rAz, zz, tol, normA, normMb, calls, xprev,
                   nupd, rupdate>>

\* a curvature check of A with the comparison inverted
sdIndefiniteAInverted(zAz) == FLt(0, zAz)

\* `if zAz < 0.0:` check curvature of A
sdIndefiniteA(zAz) == FLt(zAz, 0)

\* `if rz < 0.0:` check curvature of M
sdIndefiniteM(rzv) == FLt(rzv, 0)

\* the loop body from `q = A @ z` to `residuals.append(normr)`
sdBody ==
    /\ pc = "loop" /\ arg.solver = "steepest_descent"
    /\ xprev' = x
    /\ LET q == MatVec(arg.A, z)
           zAz == Inner(z, q)
       IN  IF sdIndefiniteA(zAz)
           THEN /\ Return(-1, "curvA")
                /\ UNCHANGED <<x, r, z, rz, normr, it, residuals, nupd,
                               rupdate>>
           ELSE LET alpha == FDiv(rz, zAz)
                    x1 == VAdd(x, VScale(alpha, z))
                    it1 == it + 1
                    r1 == IF RecomputeTest(it1, sd_recompute_r)
                          THEN VSub(arg.b, MatVec(arg.A, x1))
                          ELSE VSub(r, VScale(alpha, q))
                    z1 == MatVec(arg.M, r1)
                    rz1 == Inner(r1, z1)
                IN  /\ x' = x1 /\ r' = r1 /\ z' = z1 /\ rz' = rz1
                    /\ it' = it1
                    /\ nupd' = nupd + 1
                    /\ rupdate' = IF RecomputeTest(it1, sd_recompute_r)
                                  THEN "exact" ELSE "cheap"
                    /\ IF sdIndefiniteM(rz1)
                       THEN /\ Return(-1, "curvM")
                            /\ UNCHANGED <<normr, residuals>>
                       ELSE /\ normr' = Norm(r1)
                            /\ residuals' = AppendResidual(Norm(r1))
                            /\ pc' = AfterAppend
                            /\ UNCHANGED <<status, exit>>
    /\ UNCHANGED <<arg, p, Ap, rAz, zz, tol, normb, normA, normMb, maxiter,
                   calls>>

\* halting tests that allow one iteration more than maxiter
sdVerdictOffByOne(nr, rtol, rzv, iter, mx) ==
    IF FLt(nr, rtol) THEN "converged"
    ELSE IF FEq(rzv, 0) THEN "singular"
    ELSE IF iter = mx + 1 THEN "maxiter"
    ELSE "continue"

\* the halting tests that end the loop body, in the order of the code
sdVerdict(nr, rtol, rzv, iter, mx) ==
    IF FLt(nr, rtol) THEN "converged"
    ELSE IF FEq(rzv, 0) THEN "singular"
    ELSE IF iter = mx THEN "maxiter"
    ELSE "continue"

sdTests ==
    /\ pc = "tests" /\ arg.solver = "steepest_descent"
    /\ Halt(sdVerdict(normr, sdRtol(arg.normA, tol, x, normb), rz, it, maxiter))
    /\ UNCHANGED <<arg, x, r, z, p, Ap, rz, rAz, zz, normr, tol, normb, normA,
                   normMb, maxiter, it, residuals, calls, xprev, nupd,
                   rupdate>>

\* ------------------------------------------------------------ minimal_residual
mr_recompute_r == 50

\* maxiter = int(2*len(b))
mrDefaultMaxiter(bvec) == 2 * Len(bvec)

mrSetup ==
    /\ pc = "call" /\ arg.solver = "minimal_residual"
    /\ IF InvalidMaxiter(arg.maxiter)
       THEN /\ Raise("maxiter")
            /\ UNCHANGED <<r, normr, tol, maxiter, it, residuals>>
       ELSE LET r0 == MatVec(arg.M, VSub(arg.b, MatVec(arg.A, x)))
                normr0 == Norm(r0)
            IN  /\ maxiter' = IF IsNone(arg.maxiter) THEN mrDefaultMaxiter(arg.b)
                                                      ELSE Val(arg.maxiter)
                /\ r' = r0
                /\ normr' = normr0
                /\ residuals' = StoreInitial(normr0)
                /\ it' = 0
                /\ IF FLt(normr0, tol)
                   THEN Return(0, "converged0") /\ UNCHANGED tol
                   ELSE /\ tol' = IF FNe(normr0, 0) THEN FMul(tol, normr0) ELSE tol
                        /\ pc' = "loop"
                        /\ UNCHANGED <<status, exit>>
    /\ UNCHANGED <<arg, x, z, p, Ap, rz, rAz, zz, normb, normA, normMb, calls,
                   xprev, nupd, rupdate>>

\* `if rMAr < 0.0:` check curvature of M^-1 A
mrIndefinite(rMAr) == FLt(rMAr, 0)

\* the loop body from `iter = iter+1` to `residuals.append(norm(r))`
mrBody ==
    /\ pc = "loop" /\ arg.solver = "minimal_residual"
    /\ xprev' = x
    /\ LET it1 == it + 1
           p1 == MatVec(arg.M, MatVec(arg.A, r))
           rMAr == Inner(p1, r)
       IN  /\ it' = it1
           /\ p' = p1
           /\ IF mrIndefinite(rMAr)
              THEN /\ Return(-1, "curvA")
                   /\ UNCHANGED <<x, r, residuals, nupd, rupdate>>
              ELSE LET alpha == FDiv(rMAr, Inner(p1, p1))
                       x1 == VAdd(x, VScale(alpha, r))
                       r1 == IF RecomputeTest(it1, mr_recompute_r)
                             THEN MatVec(arg.M, VSub(arg.b, MatVec(arg.A, x1)))
                             ELSE VSub(r, VScale(alpha, p1))
                   IN  /\ x' = x1 /\ r' = r1
                       /\ nupd' = nupd + 1
                       /\ rupdate' = IF RecomputeTest(it1, mr_recompute_r)
                                     THEN "exact" ELSE "cheap"
                       /\ residuals' = AppendResidual(Norm(r1))
                       /\ pc' = AfterAppend
                       /\ UNCHANGED <<status, exit>>
    /\ UNCHANGED <<arg, z, Ap, rz, rAz, zz, normr, tol, normb, normA, normMb,
                   maxiter, calls>>

\* halting tests on the norm of the current residual
mrVerdictCurrent(nr, tl, iter, mx) ==
    IF FLt(Norm(r), tl) THEN "converged"
    ELSE IF iter = mx THEN "maxiter"
    ELSE "continue"

\* the halting tests that end the loop body, in the order of the code; normr
\* is the variable assigned before the loop
mrVerdict(nr, tl, iter, mx) ==
    IF FLt(nr, tl) THEN "converged"
    ELSE IF iter = mx THEN "maxiter"
    ELSE "continue"

mrTests ==
    /\ pc = "tests" /\ arg.solver = "minimal_residual"
    /\ Halt(mrVerdict(normr, tol, it, maxiter))
    /\ UNCHANGED <<arg, x, r, z, p, Ap, rz, rAz, zz, normr, tol, normb, normA,
                   normMb, maxiter, it, residuals, calls, xprev, nupd,
                   rupdate>>

\* ------------------------------------------------------------ specification
Next ==
    \/ cgSetup \/ cgBody \/ cgTests
    \/ crSetup \/ crBody \/ crTests
    \/ sdSetup \/ sdBody \/ sdTests
    \/ mrSetup \/ mrBody \/ mrTests
    \/ Callback

Spec == Init /\ [][Next]_vars

\* calls that may run for MaxSchedIter iterations: tol = 0, so that no call
\* converges on a nonzero residual, and maxiter = MaxSchedIter
ScheduleCalls ==
    [solver : {"cg", "cr", "steepest_descent", "minimal_residual"},
     A : ASet, M : MSet, b : bSet, x0 : x0Set,
     tol : {0}, maxiter : {Some(MaxSchedIter)}, criteria : {"rr"},
     normable : {TRUE}, normA : {None},
     callback : BOOLEAN, residuals : {Some(<<>>)}]

InitSchedule == arg \in ScheduleCalls /\ Start

SpecSchedule == InitSchedule /\ [][Next]_vars

\* ------------------------------------------------------------ properties
\* the call names a maxiter, and a valid one
ExplicitMaxiter == ~IsNone(arg.maxiter) /\ Val(arg.maxiter) >= 1

InLoop == pc \in {"loop", "callback", "tests"}

\* the residual norm of the initial guess: the 2-norm of b - A x0, and for
\* minimal_residual the 2-norm of M (b - A x0)
InitialResidualNorm ==
    IF arg.solver = "minimal_residual"
    THEN Norm(MatVec(arg.M, VSub(arg.b, MatVec(arg.A, arg.x0))))
    ELSE Norm(VSub(arg.b, MatVec(arg.A, arg.x0)))

\* the convergence test of the solver, on the values of the current state
ConvergenceTest ==
    IF arg.solver = "cr"
    THEN FLt(IF arg.criteria = "MrMr" /\ pc = "tests" THEN Norm(z) ELSE normr,
             crRtol(arg.criteria, tol, normA, x, normb, normMb))
    ELSE IF arg.solver = "steepest_descent"
    THEN FLt(normr, sdRtol(arg.normA, tol, x, normb))
    ELSE FLt(normr, tol)

\* the inner product whose exact zero signals a singular preconditioner
\* (minimal_residual has no such test)
ZeroInnerProduct ==
    IF arg.solver = "cr" THEN FEq(zz, 0)
    ELSE IF arg.solver = "minimal_residual" THEN FALSE
    ELSE FEq(rz, 0)

\* the curvature that the next loop body computes first: pAp in cg, zAz in
\* steepest_descent, rMAr in minimal_residual (cr computes none)
Curvature ==
    IF arg.solver = "cg" THEN Inner(MatVec(arg.A, p), p)
    ELSE IF arg.solver = "steepest_descent" THEN Inner(z, MatVec(arg.A, z))
    ELSE IF arg.solver = "minimal_residual"
    THEN Inner(MatVec(arg.M, MatVec(arg.A, r)), r)
    ELSE 0

\* some breakdown test holds of the values of the current state
BreakdownTest ==
    \/ ZeroInnerProduct
    \/ arg.solver \in {"cg", "steepest_descent"} /\ FLt(rz, 0)
    \/ FLt(Curvature, 0)

C1_Statuses ==
    (pc = "returned" /\ ExplicitMaxiter) =>
        /\ status \in {0, -1, Val(arg.maxiter)}
        /\ status = 0 => ConvergenceTest
        /\ status = -1 => BreakdownTest
        /\ status > 0 => /\ it = Val(arg.maxiter)
                         /\ ~ConvergenceTest
                         /\ ~ZeroInnerProduct
                         /\ arg.solver \in {"cg", "steepest_descent"} => ~FLt(rz, 0)

\* C1: with an integer maxiter >= 1, a return yields a status in
\* {0, -1, maxiter}: 0 only when the convergence test holds, -1 only when a
\* breakdown test holds, a positive status only when the iteration counter
\* equals maxiter and neither kind of test holds; and once the loop has
\* begun, a call never ends by raising.
C1_StatusContract ==
    /\ []C1_Statuses
    /\ [][(InLoop /\ ExplicitMaxiter) => pc' \in {"loop", "callback", "tests", "returned"}]_vars

\* cg returns the iteration count 1 = maxiter with a finite nonzero residual
C1_Witness ==
    /\ pc = "returned" /\ ExplicitMaxiter
    /\ arg.solver = "cg" /\ status = Val(arg.maxiter) /\ status = 1
    /\ ~IsNaN(normr) /\ ~IsInf(normr) /\ normr > 0

IsPrefix(s, t) == Len(s) <= Len(t) /\ SubSeq(t, 1, Len(s)) = s

\* C2 as claimed: on every return, residuals[0] is the initial residual norm
\* and len(residuals) = 1 + the number of iterations that updated x.
C2_Original ==
    (pc = "returned" /\ HasResiduals) =>
        /\ residuals[1] = InitialResidualNorm
        /\ Len(residuals) = 1 + nupd

\* C2 amended: on every return, residuals[0] is the initial residual norm and
\* len(residuals) = 1 + the number of iterations that updated x, except on
\* the return after the preconditioner curvature check (rz < 0) of cg and
\* steepest_descent, where the aborted iteration has updated x too and
\* len(residuals) = the number of iterations that updated x.
C2_Amended ==
    (pc = "returned" /\ HasResiduals) =>
        /\ residuals[1] = InitialResidualNorm
        /\ Len(residuals) = IF exit = "curvM" THEN nupd ELSE 1 + nupd

\* a return after the check rz < 0 fired in the second iteration or later
C2_Witness ==
    /\ pc = "returned" /\ HasResiduals
    /\ exit = "curvM" /\ nupd >= 2 /\ Len(residuals) = nupd

\* the halting tests did not stop the iteration that has just completed
NoHaltingTestFired ==
    /\ ~ConvergenceTest
    /\ ~ZeroInnerProduct
    /\ arg.solver \in {"cg", "steepest_descent"} => ~FLt(rz, 0)

\* C3: with maxiter = m >= 1, no (m+1)-th iteration is started, and a call
\* whose m-th iteration updated x and fired no convergence or breakdown test
\* returns status m after exactly m iterations, with exactly m entries after
\* the initial one in residuals.
C3_MaxiterExhaustion ==
    ExplicitMaxiter =>
        /\ pc = "loop" => nupd < Val(arg.maxiter)
        /\ (pc = "returned" /\ nupd = Val(arg.maxiter) /\ NoHaltingTestFired) =>
               /\ status = Val(arg.maxiter)
               /\ it = Val(arg.maxiter)
               /\ HasResiduals => Len(residuals) = Val(arg.maxiter) + 1

\* steepest_descent runs out of iterations with a finite nonzero residual
C3_Witness ==
    /\ pc = "returned" /\ ExplicitMaxiter /\ HasResiduals
    /\ arg.solver = "steepest_descent"
    /\ status = Val(arg.maxiter) /\ status >= 2
    /\ Len(residuals) = status + 1
    /\ ~IsNaN(normr) /\ ~IsInf(normr) /\ normr > 0

InvalidInput ==
    \/ ~IsNone(arg.maxiter) /\ Val(arg.maxiter) < 1
    \/ /\ arg.solver = "cr"
       /\ \/ arg.criteria \notin {"rr", "rr+", "MrMr"}
          \/ arg.criteria = "rr+" /\ ~arg.normable

C6_NegativeCurvatureOfA ==
    [][(pc = "loop" /\ arg.solver \in {"cg", "steepest_descent"}
           /\ FLt(Curvature, 0)) =>
         /\ pc' = "returned" /\ status' = -1
         /\ residuals' = residuals
         /\ calls' = calls
         /\ x' = x
         /\ nupd = 0 => x' = arg.x0]_vars

\* steepest_descent has met negative curvature after a completed iteration
C6_Witness ==
    /\ pc = "returned" /\ exit = "curvA" /\ status = -1
    /\ arg.solver = "steepest_descent"
    /\ nupd >= 1 /\ x # arg.x0 /\ x = xprev
    /\ HasResiduals /\ Len(residuals) = nupd + 1

\* C7 as claimed: at the end of an iteration minimal_residual returns 0 if
\* and only if the norm of the current residual, the value just appended to
\* residuals, is below tol scaled by the initial residual norm.
C7_HaltsOnCurrentResidual ==
    [][(pc = "tests" /\ arg.solver = "minimal_residual") =>
         ((pc' = "returned" /\ status' = 0) <=> FLt(Norm(r), tol))]_vars

\* C8: the callback is called once per completed iteration, with the
\* current x, after the append and before the halting tests of that
\* iteration; so at the tests and at return the number of calls is
\* len(residuals) - 1; an iteration that aborts on a curvature check and a
\* convergence before the loop call no callback.
C8_CallbackPerIteration ==
    HasCallback =>
        /\ pc = "callback" =>
               /\ Len(calls) = nupd - 1
               /\ HasResiduals => Len(residuals) = nupd + 1
        /\ pc = "tests" =>
               /\ Len(calls) = nupd /\ calls[nupd] = x
               /\ HasResiduals => Len(residuals) = nupd + 1
        /\ (pc \in {"loop", "returned"} /\ HasResiduals) =>
               Len(calls) = Len(residuals) - 1
        /\ (pc = "returned" /\ exit = "converged0") => calls = <<>>
        /\ (pc = "returned" /\ exit = "curvA") => Len(calls) = nupd
        /\ (pc = "returned" /\ exit = "curvM") => Len(calls) = nupd - 1
        /\ (pc = "returned" /\ exit \in {"converged", "singular", "maxiter"}) =>
               Len(calls) = nupd /\ calls[nupd] = x

\* every completed iteration called the callback, the aborted one did not
C8_Witness ==
    /\ pc = "returned" /\ HasCallback /\ HasResiduals
    /\ exit = "curvM" /\ nupd >= 2 /\ Len(calls) = nupd - 1

\* <r, M r> of the residual after the update of this loop body
NextPrecondCurvature ==
    LET res == IF arg.solver = "minimal_residual"
               THEN VSub(arg.b, MatVec(arg.A, x'))
               ELSE r'
    IN  Inner(res, MatVec(arg.M, res))

\* C9 as claimed: in all four solvers, a loop body whose updated residual has
\* <r, M r> < 0 returns -1 in that iteration.
C9_Original ==
    [][(pc = "loop" /\ nupd' = nupd + 1 /\ FLt(NextPrecondCurvature, 0)) =>
         (pc' = "returned" /\ status' = -1)]_vars

\* C9 amended: in cg and steepest_descent, a loop body whose updated residual
\* has <r, M r> < 0 returns -1 in that iteration (cr makes no curvature test,
\* minimal_residual only tests <M A r, r> when the next iteration begins).
C9_Amended ==
    [][(pc = "loop" /\ arg.solver \in {"cg", "steepest_descent"}
           /\ nupd' = nupd + 1 /\ FLt(NextPrecondCurvature, 0)) =>
         (pc' = "returned" /\ status' = -1)]_vars

\* cg has stopped on an indefinite preconditioner, after an update of x
C9_Witness ==
    /\ pc = "returned" /\ status = -1 /\ exit = "curvM"
    /\ arg.solver = "cg" /\ FLt(rz, 0) /\ x # xprev

\* C10: in cg, cr and steepest_descent the halting tests come in the order
\* convergence, singular preconditioner, maxiter: a passing convergence test
\* returns 0 whatever the inner product and the counter are; -1 is returned
\* if and only if the inner product is exactly zero and the convergence test
\* failed, also when the counter equals maxiter.
C10_OrderOfTests ==
    [][(pc = "tests" /\ arg.solver \in {"cg", "cr", "steepest_descent"}) =>
         /\ ConvergenceTest => (pc' = "returned" /\ status' = 0)
         /\ (~ConvergenceTest /\ ZeroInnerProduct) =>
                (pc' = "returned" /\ status' = -1)
         /\ (pc' = "returned" /\ status' = -1) =>
                (ZeroInnerProduct /\ ~ConvergenceTest)]_vars

\* a singular preconditioner is reported in the iteration that is also the
\* last one allowed
C10_Witness ==
    /\ pc = "returned" /\ status = -1 /\ exit = "singular"
    /\ ExplicitMaxiter /\ it = Val(arg.maxiter) /\ it >= 2

\* a loop body that updates x and r
UpdatesResidual == pc = "loop" /\ nupd' = nupd + 1

\* r minus alpha times the operator product the loop body has computed
CheapResidual ==
    IF arg.solver = "cg"
    THEN LET Ap1 == MatVec(arg.A, p)
         IN  VSub(r, VScale(FDiv(rz, Inner(Ap1, p)), Ap1))
    ELSE IF arg.solver = "cr"
    THEN VSub(r, VScale(FDiv(rAz, Inner(Ap, Ap)), Ap))
    ELSE IF arg.solver = "steepest_descent"
    THEN LET q == MatVec(arg.A, z)
         IN  VSub(r, VScale(FDiv(rz, Inner(z, q)), q))
    ELSE LET p1 == MatVec(arg.M, MatVec(arg.A, r))
         IN  VSub(r, VScale(FDiv(Inner(p1, r), Inner(p1, p1)), p1))

\* the residual recomputed from b, A and the updated x
ExactResidual ==
    IF arg.solver = "minimal_residual"
    THEN MatVec(arg.M, VSub(arg.b, MatVec(arg.A, x')))
    ELSE VSub(arg.b, MatVec(arg.A, x'))

\* the update of r is the one rupdate' names
ResidualUpdatedAsRecorded ==
    /\ rupdate' \in {"cheap", "exact"}
    /\ rupdate' = "cheap" => r' = CheapResidual
    /\ rupdate' = "exact" => r' = ExactResidual

\* the iteration counter as the residual-update test of the solver reads it:
\* cg and cr test it before they increment it, steepest_descent and
\* minimal_residual after
TestedCounter ==
    IF arg.solver \in {"cg", "cr"} THEN it ELSE it'

\* C11 as claimed: in every solver the cheap update is used only when the
\* iteration counter is a nonzero multiple of recompute_r (8 for cg and cr,
\* 50 for steepest_descent and minimal_residual), and the residual is
\* recomputed exactly on every other iteration.
C11_Original ==
    [][UpdatesResidual =>
         /\ ResidualUpdatedAsRecorded
         /\ rupdate' = "cheap" <=>
                /\ TestedCounter > 0
                /\ TestedCounter % (IF arg.solver \in {"cg", "cr"}
                                    THEN 8 ELSE 50) = 0]_vars

\* C11 amended: cg and cr recompute the residual exactly when the counter
\* (counted from 0) is 0 or a multiple of 8 and use the cheap update on every
\* other iteration; steepest_descent and minimal_residual use the cheap
\* update only when the counter (counted from 1) is a multiple of 50 and
\* recompute the residual exactly on every other iteration.
C11_Amended ==
    [][UpdatesResidual =>
         /\ ResidualUpdatedAsRecorded
         /\ arg.solver \in {"cg", "cr"} =>
                rupdate' = IF it % 8 = 0 THEN "exact" ELSE "cheap"
         /\ arg.solver \in {"steepest_descent", "minimal_residual"} =>
                rupdate' = IF it' % 50 = 0 THEN "cheap" ELSE "exact"]_vars

\* the 50th iteration of steepest_descent has used the cheap update, on a
\* finite residual
C11_Witness ==
    /\ arg.solver = "steepest_descent"
    /\ pc = "tests" /\ it = 50 /\ rupdate = "cheap"
    /\ ~IsNaN(normr) /\ ~IsInf(normr)

\* a call of minimal_residual that enters the loop with a nonzero initial
\* residual and 0 < tol <= 1
StaleTestCase ==
    /\ arg.solver = "minimal_residual"
    /\ ~InvalidMaxiter(arg.maxiter)
    /\ arg.tol > 0 /\ arg.tol <= FromInt(1)
    /\ FNe(InitialResidualNorm, 0)
    /\ ~FLt(InitialResidualNorm, arg.tol)

ExactInitialGuess ==
    /\ ~InvalidInput
    /\ arg.tol > 0
    /\ VSub(arg.b, MatVec(arg.A, arg.x0)) = ZeroVec

\* C13 as claimed: a call with tol > 0 whose initial residual is exactly zero
\* returns status 0 with x = x0 from the setup: no iteration, no callback,
\* and residuals holds exactly the one initial entry.
C13_ExactGuessAccepted ==
    (ExactInitialGuess /\ pc # "call") =>
        /\ pc = "returned" /\ status = 0
        /\ x = arg.x0 /\ nupd = 0
        /\ calls = <<>>
        /\ HasResiduals => Len(residuals) = 1

\* C14 as claimed: when a call fails with an invalid-argument error (maxiter
\* < 1; in cr an unknown criteria, or 'rr+' with an operator of unsupported
\* format) the caller's residuals list holds exactly what it held before
\* the call.
C14_RejectedCallKeepsResiduals ==
    (pc = "raised" /\ HasResiduals) => residuals = Val(arg.residuals)
=============================================================================
